---- MODULE Spec2Model ----
(***************************************************************************)
(* The data-analysis dashboard script (src/test.py; src/my_first_app.py    *)
(* holds the same classification, correlation and t-test sections line for *)
(* line).  One run of the script is a walk through its sections: load the  *)
(* uploaded file, classify the columns, show the KPIs, the correlation     *)
(* matrix and the independent t-test.  A file is a CSV grid of text        *)
(* tokens; pandas' loader turns it into typed columns.                     *)
(*                                                                         *)
(* Not modelled: the coefficient values of the correlation matrix, the     *)
(* charts, the HTML markup and the "Profit vs Quantity" section (no file   *)
(* of the model has columns of those names).                               *)
(***************************************************************************)
EXTENDS Integers, Sequences, FiniteSets, TLC

\* Bounds of the model: rows of a file, columns of a file.
MaxRows == 4
MaxCols == 5

\* ---------------------------------------------------------------- files

\* A field pandas reads as a missing value (NaN): an NA marker.
NA == "NA"
TextTokens == {"a", "b"}
NumTokens == {"1", "2"}
BoolTokens == {"True"}

\* Header names: distinct by position (pandas renames a repeated header name
\* on load, so the columns of a loaded frame are always distinct).
Names == <<"c1", "c2", "c3", "c4", "c5", "c6", "c7", "c8">>

Min(a, b) == IF a <= b THEN a ELSE b

Header(c) == [i \in 1..c |-> Names[i]]

\* A constant column: r cells, all the token t.
ConstCol(t, r) == [i \in 1..r |-> t]

\* The uploads of the model are .csv files (the read_csv branch of the load).
\* Files of two columns, labels beside values, every cell free.
TallFilesOf(r) ==
  { [name |-> "data.csv", header |-> Header(2), cols |-> <<g, v>>] :
      g \in [1..r -> TextTokens \cup {NA}],
      v \in [1..r -> NumTokens \cup {NA}] }

\* Files of up to MaxCols columns, each column one token repeated.
WideTokens == {NA, "1", "a", "True"}

WideFilesOf(r, c) ==
  { [name |-> "data.csv", header |-> Header(c),
     cols |-> [i \in 1..c |-> ConstCol(t[i], r)]] :
      t \in [1..c -> WideTokens] }

\* The files a user may upload: r rows, tall or wide.
Files(r) == TallFilesOf(r) \cup UNION { WideFilesOf(r, c) : c \in 1..MaxCols }

\* st.file_uploader returns None until a file is uploaded.
NoFile == [name |-> "", header |-> <<>>, cols |-> <<>>]

\* ------------------------------------------------------------- rationals

\* A float as an exact fraction; d = 0 is NaN.
NaN == [n |-> 0, d |-> 0]

IsNaN(x) == x.d = 0

RECURSIVE Gcd(_, _)
Gcd(a, b) == IF b = 0 THEN a ELSE Gcd(b, a % b)

Frac(n, d) ==
  IF d = 0 THEN NaN
  ELSE LET g == Gcd(IF n < 0 THEN -n ELSE n, d)
       IN  [n |-> n \div g, d |-> d \div g]

FracAdd(x, y) ==
  IF IsNaN(x) \/ IsNaN(y) THEN NaN
  ELSE Frac(x.n * y.d + y.n * x.d, x.d * y.d)

\* ---------------------------------------------------------------- pandas

\* The value of a numeric token.
ParseNum(t) == CASE t = "1" -> 1 [] t = "2" -> 2

\* Variant of InferDtype: a column without any value is left as object.
InferDtypeEmptyAsObject(cells) ==
  IF \A i \in 1..Len(cells) : cells[i] = NA THEN "object"
  ELSE IF \A i \in 1..Len(cells) : cells[i] \in NumTokens \cup {NA}
       THEN IF \E i \in 1..Len(cells) : cells[i] = NA
            THEN "float64" ELSE "int64"
  ELSE IF \A i \in 1..Len(cells) : cells[i] \in BoolTokens THEN "bool"
  ELSE "object"

\* pd.read_csv's type inference for one column.  A frame without rows has
\* only object columns; digits and empty fields give int64 without and
\* float64 with a missing field (so also when every field is missing);
\* True/False without a missing field gives bool; anything else is object.
InferDtype(cells) ==
  IF Len(cells) = 0 THEN "object"
  ELSE IF \A i \in 1..Len(cells) : cells[i] \in NumTokens \cup {NA}
       THEN IF \E i \in 1..Len(cells) : cells[i] = NA
            THEN "float64" ELSE "int64"
  ELSE IF \A i \in 1..Len(cells) : cells[i] \in BoolTokens THEN "bool"
  ELSE "object"

\* pd.read_csv(uploaded_file): the frame, its columns in file order.
ReadCsv(f) ==
  [nrows |-> Len(f.cols[1]),
   columns |-> [i \in 1..Len(f.header) |->
                  [name |-> f.header[i],
                   dtype |-> InferDtype(f.cols[i]),
                   cells |-> f.cols[i]]]]

NoFrame == [nrows |-> 0, columns |-> <<>>]

\* Variant of NumberDtypes: bool counted as a number.
NumberDtypesWithBool == {"int64", "float64", "bool"}

\* The dtypes select_dtypes takes for include=["object", "category"] and
\* for include=["number"].
CategoricalDtypes == {"object", "category"}
NumberDtypes == {"int64", "float64"}

ColumnName(col) == col.name

RECURSIVE MapNames(_)
MapNames(cols) ==
  IF cols = <<>> THEN <<>>
  ELSE <<ColumnName(Head(cols))>> \o MapNames(Tail(cols))

\* df.select_dtypes(include=...).columns.tolist()
SelectDtypes(d, include) ==
  LET Keep(col) == col.dtype \in include
  IN  MapNames(SelectSeq(d.columns, Keep))

\* df[name]
Column(d, name) ==
  LET i == CHOOSE i \in 1..Len(d.columns) : d.columns[i].name = name
  IN  d.columns[i]

RECURSIVE SumSeq(_)
SumSeq(s) == IF s = <<>> THEN 0 ELSE Head(s) + SumSeq(Tail(s))

RECURSIVE SumSquares(_)
SumSquares(s) ==
  IF s = <<>> THEN 0 ELSE Head(s) * Head(s) + SumSquares(Tail(s))

\* Series.dropna() of a numeric column, as numbers.
RECURSIVE DropNa(_)
DropNa(cells) ==
  IF cells = <<>> THEN <<>>
  ELSE IF Head(cells) = NA THEN DropNa(Tail(cells))
  ELSE <<ParseNum(Head(cells))>> \o DropNa(Tail(cells))

\* Series.sum(skipna=True): 0 for a column without values.
ColSum(col) == SumSeq(DropNa(col.cells))

\* Series.mean(skipna=True): NaN for a column without values.
SeriesMean(values) == Frac(SumSeq(values), Len(values))

ColMean(col) == SeriesMean(DropNa(col.cells))

\* df.isnull().mean(): per column, the fraction of missing cells (NaN in a
\* frame without rows).
IsNullMean(d, col) ==
  Frac(Cardinality({i \in 1..d.nrows : col.cells[i] = NA}), d.nrows)

RECURSIVE FracSum(_)
FracSum(s) ==
  IF s = <<>> THEN Frac(0, 1) ELSE FracAdd(Head(s), FracSum(Tail(s)))

\* df.isnull().mean().mean() * 100
MissingPercent(d) ==
  LET per == [i \in 1..Len(d.columns) |-> IsNullMean(d, d.columns[i])]
      tot == FracSum(per)
  IN  IF IsNaN(tot) THEN NaN
      ELSE Frac(100 * tot.n, tot.d * Len(d.columns))

\* ---------------------------------------------------------------- t-test

Range(s) == {s[i] : i \in 1..Len(s)}

\* Series.dropna().unique(): the labels in order of first appearance.
RECURSIVE UniqueLabels(_, _)
UniqueLabels(cells, seen) ==
  IF cells = <<>> THEN seen
  ELSE IF Head(cells) = NA \/ Head(cells) \in Range(seen)
       THEN UniqueLabels(Tail(cells), seen)
  ELSE UniqueLabels(Tail(cells), Append(seen, Head(cells)))

\* df[df[group_col] == label][numeric_col].dropna(), rows i and after.
RECURSIVE GroupDataFrom(_, _, _, _)
GroupDataFrom(gcells, ncells, label, i) ==
  IF i > Len(gcells) THEN <<>>
  ELSE IF gcells[i] = label /\ ncells[i] # NA
       THEN <<ParseNum(ncells[i])>> \o GroupDataFrom(gcells, ncells, label, i + 1)
  ELSE GroupDataFrom(gcells, ncells, label, i + 1)

GroupData(d, group_col, label, numeric_col) ==
  GroupDataFrom(Column(d, group_col).cells, Column(d, numeric_col).cells, label, 1)

\* Variant of EnoughData: one sample of more than one value is enough.
EnoughDataEither(data1, data2) == Len(data1) > 1 \/ Len(data2) > 1

\* The gate on the two samples.
EnoughData(data1, data2) == Len(data1) > 1 /\ Len(data2) > 1

\* n * (n - 1) * the unbiased sample variance: n * sum(x^2) - sum(x)^2.
ScaledVar(x) == Len(x) * SumSquares(x) - SumSeq(x) * SumSeq(x)

\* stats.ttest_ind(data1, data2, equal_var=False): Welch's statistic
\*   t = (mean1 - mean2) / sqrt(var1 / n1 + var2 / n2)
\* as its sign and its square, an exact fraction.  With both variances 0 the
\* division is 0/0 = nan for equal means and +-inf otherwise.
WelchT(x, y) ==
  LET n1 == Len(x)
      n2 == Len(y)
      D == SumSeq(x) * n2 - SumSeq(y) * n1
      num == D * D * (n1 - 1) * (n2 - 1)
      den == ScaledVar(x) * n2 * n2 * (n2 - 1) + ScaledVar(y) * n1 * n1 * (n1 - 1)
      sign == IF D > 0 THEN 1 ELSE IF D < 0 THEN -1 ELSE 0
  IN  IF den = 0
      THEN [kind |-> IF D = 0 THEN "nan" ELSE "inf", sign |-> sign, sq |-> NaN]
      ELSE [kind |-> "finite", sign |-> sign, sq |-> Frac(num, den)]

\* The two-sided p-value of t under Student's t with the Welch-Satterthwaite
\* degrees of freedom: nan for t = nan, 0 for t = +-inf, 1 for t = 0, and
\* otherwise strictly between 0 and 1.
PValue(t) ==
  CASE t.kind = "nan" -> "nan"
    [] t.kind = "inf" -> "0"
    [] t.kind = "finite" /\ t.sign = 0 -> "1"
    [] OTHER -> "between"

\* Variant of PBelowAlpha: the branch taken unless p_value >= 0.05, which a
\* nan p-value then takes.
PBelowAlphaNanTaken(t) ==
  CASE t.kind = "nan" -> {TRUE}
    [] t.kind = "inf" -> {TRUE}
    [] t.kind = "finite" /\ t.sign = 0 -> {FALSE}
    [] OTHER ->
         IF 100 * t.sq.n <= 384 * t.sq.d THEN {FALSE}
         ELSE IF 100 * t.sq.n >= 16145 * t.sq.d THEN {TRUE}
         ELSE BOOLEAN

\* The outcomes of p_value < 0.05.  A comparison with nan is False.  For a
\* finite t # 0 the p-value depends on the Welch-Satterthwaite degrees of
\* freedom, some real number >= 1: p >= 0.05 for every such number when
\* t^2 <= 3.84 (|t| below the normal quantile 1.96), p < 0.05 for every such
\* number when t^2 >= 161.45 (|t| above 12.706, the quantile for 1 degree of
\* freedom); in between either outcome is kept.
PBelowAlpha(t) ==
  CASE PValue(t) = "nan" -> {FALSE}
    [] PValue(t) = "0" -> {TRUE}
    [] PValue(t) = "1" -> {FALSE}
    [] OTHER ->
         IF 100 * t.sq.n <= 384 * t.sq.d THEN {FALSE}
         ELSE IF 100 * t.sq.n >= 16145 * t.sq.d THEN {TRUE}
         ELSE BOOLEAN

\* Variant of ReportedDof: the smaller sample's size minus 1 (the lower
\* bound of the Welch-Satterthwaite degrees of freedom).
ReportedDofSmallerSample(data1, data2) == Min(Len(data1), Len(data2)) - 1

\* The "Degrees of Freedom" metric.
ReportedDof(data1, data2) == Len(data1) + Len(data2) - 2

NotEnoughMsg == "Not enough data points in one of the groups."

\* Nothing of the t-test section is on the page.
NoTTest ==
  [kind |-> "none", group_col |-> "", numeric_col |-> "", group1 |-> "",
   group2 |-> "", t_stat |-> [kind |-> "nan", sign |-> 0, sq |-> NaN],
   dof |-> 0, p_value |-> "nan", mean1 |-> NaN, mean2 |-> NaN,
   verdict |-> "", error |-> ""]

\* ------------------------------------------------------------------ KPIs

\* Variant of TopNumeric: no slice, a card for every numeric column.
TopNumericAll(cols) == cols

\* numeric_cols[:3]
TopNumeric(cols) == SubSeq(cols, 1, Min(3, Len(cols)))

KpiCard(d, col_name) ==
  [name |-> col_name,
   col_sum |-> ColSum(Column(d, col_name)),
   col_mean |-> ColMean(Column(d, col_name))]

NoOverview == [shown |-> FALSE, rows |-> 0, columns |-> 0, missing |-> NaN]

\* ----------------------------------------------------------- correlation

Methods == {"pearson", "spearman", "kendall"}

\* Variant of CorrGate: one numeric column is enough.
CorrGateOne(cols) == Len(cols) >= 1

\* len(numeric_cols) >= 2
CorrGate(cols) == Len(cols) >= 2

NoMatrix == [present |-> FALSE, method |-> "", index |-> <<>>, columns |-> <<>>]

\* df[numeric_cols].corr(method=corr_method): labelled by the columns taken.
Corr(d, cols, method) ==
  [present |-> TRUE, method |-> method, index |-> cols, columns |-> cols]

\* ----------------------------------------------------------------- state

VARIABLES
  pc,                \* the section the script run is at
  uploaded_file,     \* the file uploader's value
  df,                \* the loaded frame
  categorical_cols,
  numeric_cols,
  kpi_warning,       \* "No numerical columns found" is shown
  kpi_cards,         \* the KPI cards shown
  overview,          \* the dataset overview metrics shown
  corr_matrix,       \* the correlation matrix shown
  ttest              \* what the t-test section shows

vars == <<pc, uploaded_file, df, categorical_cols, numeric_cols, kpi_warning,
          kpi_cards, overview, corr_matrix, ttest>>

Cleared ==
  /\ df' = NoFrame
  /\ categorical_cols' = <<>>
  /\ numeric_cols' = <<>>
  /\ kpi_warning' = FALSE
  /\ kpi_cards' = <<>>
  /\ overview' = NoOverview
  /\ corr_matrix' = NoMatrix
  /\ ttest' = NoTTest

\* The first run: no file yet, only the "Please upload" note is shown.
Init ==
  /\ pc = "idle"
  /\ uploaded_file = NoFile
  /\ df = NoFrame
  /\ categorical_cols = <<>>
  /\ numeric_cols = <<>>
  /\ kpi_warning = FALSE
  /\ kpi_cards = <<>>
  /\ overview = NoOverview
  /\ corr_matrix = NoMatrix
  /\ ttest = NoTTest

\* The user uploads a file: the script runs again from the top.
Upload ==
  /\ pc = "idle"
  /\ \E r \in 0..MaxRows : \E f \in Files(r) : uploaded_file' = f
  /\ pc' = "load"
  /\ Cleared

\* The user removes the file: the script runs again and shows only the
\* "Please upload" note.
RemoveFile ==
  /\ pc = "done"
  /\ uploaded_file' = NoFile
  /\ pc' = "idle"
  /\ Cleared

\* The user changes a selection: the script runs again on the same file.
Rerun ==
  /\ pc = "done"
  /\ pc' = "load"
  /\ Cleared
  /\ UNCHANGED uploaded_file

Load ==
  /\ pc = "load"
  /\ uploaded_file # NoFile
  /\ df' = ReadCsv(uploaded_file)
  /\ pc' = "classify"
  /\ UNCHANGED <<uploaded_file, categorical_cols, numeric_cols, kpi_warning,
                 kpi_cards, overview, corr_matrix, ttest>>

Classify ==
  /\ pc = "classify"
  /\ categorical_cols' = SelectDtypes(df, CategoricalDtypes)
  /\ numeric_cols' = SelectDtypes(df, NumberDtypes)
  /\ pc' = "kpis"
  /\ UNCHANGED <<uploaded_file, df, kpi_warning, kpi_cards, overview,
                 corr_matrix, ttest>>

\* The KPI section: the columns are classified again, then either the
\* warning or the cards and the dataset overview.
KPIs ==
  /\ pc = "kpis"
  /\ numeric_cols' = SelectDtypes(df, NumberDtypes)
  /\ IF Len(numeric_cols') = 0
     THEN /\ kpi_warning' = TRUE
          /\ UNCHANGED <<kpi_cards, overview>>
     ELSE /\ kpi_cards' = [i \in 1..Len(TopNumeric(numeric_cols')) |->
                             KpiCard(df, TopNumeric(numeric_cols')[i])]
          /\ overview' = [shown |-> TRUE, rows |-> df.nrows,
                          columns |-> Len(df.columns),
                          missing |-> MissingPercent(df)]
          /\ UNCHANGED kpi_warning
  /\ pc' = "corr"
  /\ UNCHANGED <<uploaded_file, df, categorical_cols, corr_matrix, ttest>>

Correlation ==
  /\ pc = "corr"
  /\ \E corr_method \in Methods :
       IF CorrGate(numeric_cols)
       THEN corr_matrix' = Corr(df, numeric_cols, corr_method)
       ELSE UNCHANGED corr_matrix
  /\ pc' = "ttest"
  /\ UNCHANGED <<uploaded_file, df, categorical_cols, numeric_cols,
                 kpi_warning, kpi_cards, overview, ttest>>

\* What the section shows for the two selected groups.
TTestShown(group_col, numeric_col, group1, group2) ==
  LET data1 == GroupData(df, group_col, group1, numeric_col)
      data2 == GroupData(df, group_col, group2, numeric_col)
      sel == [NoTTest EXCEPT !.group_col = group_col,
                             !.numeric_col = numeric_col,
                             !.group1 = group1, !.group2 = group2]
      t == WelchT(data1, data2)
  IN  IF EnoughData(data1, data2)
      THEN { [sel EXCEPT !.kind = "result", !.t_stat = t,
                         !.dof = ReportedDof(data1, data2),
                         !.p_value = PValue(t),
                         !.mean1 = SeriesMean(data1),
                         !.mean2 = SeriesMean(data2),
                         !.verdict = IF below THEN "statistically significant"
                                     ELSE "not statistically significant"] :
               below \in PBelowAlpha(t) }
      ELSE { [sel EXCEPT !.kind = "error", !.error = NotEnoughMsg] }

TTest ==
  /\ pc = "ttest"
  /\ IF categorical_cols # <<>> /\ numeric_cols # <<>>
     THEN \E group_col \in Range(categorical_cols),
             numeric_col \in Range(numeric_cols) :
            LET groups == UniqueLabels(Column(df, group_col).cells, <<>>)
            IN  IF Len(groups) >= 2
                THEN \E group1 \in Range(groups), group2 \in Range(groups) :
                       ttest' \in TTestShown(group_col, numeric_col, group1, group2)
                ELSE ttest' = [NoTTest EXCEPT !.kind = "selected",
                                              !.group_col = group_col,
                                              !.numeric_col = numeric_col]
     ELSE UNCHANGED ttest
  /\ pc' = "done"
  /\ UNCHANGED <<uploaded_file, df, categorical_cols, numeric_cols,
                 kpi_warning, kpi_cards, overview, corr_matrix>>

Next ==
  \/ Upload
  \/ RemoveFile
  \/ Rerun
  \/ Load
  \/ Classify
  \/ KPIs
  \/ Correlation
  \/ TTest

Spec == Init /\ [][Next]_vars

\* ---------------------------------------------------------------- claims
\* The properties below are stated on the frame itself (row sets and cell
\* counts), not through the operators the sections compute with.

Rows == 1..df.nrows

Cells(name) == Column(df, name).cells

AfterClassify == pc \in {"kpis", "corr", "ttest", "done"}
AfterKPIs == pc \in {"corr", "ttest", "done"}
AfterCorrelation == pc \in {"ttest", "done"}

\* The rows of a selected group that hold a target value.
SampleRows(label) ==
  {i \in Rows : Cells(ttest.group_col)[i] = label
                /\ Cells(ttest.numeric_col)[i] # NA}

SampleSize(label) == Cardinality(SampleRows(label))

\* Sum and sum of squares of the target values on a set of rows.
Total(rows, cells) ==
  Cardinality({i \in rows : cells[i] = "1"})
    + 2 * Cardinality({i \in rows : cells[i] = "2"})

TotalSquares(rows, cells) ==
  Cardinality({i \in rows : cells[i] = "1"})
    + 4 * Cardinality({i \in rows : cells[i] = "2"})

SampleTotal(label) == Total(SampleRows(label), Cells(ttest.numeric_col))

SampleSquares(label) == TotalSquares(SampleRows(label), Cells(ttest.numeric_col))

\* n * sum(x^2) - sum(x)^2 = n * (n - 1) * variance.
SampleSpread(label) ==
  SampleSize(label) * SampleSquares(label) - SampleTotal(label) * SampleTotal(label)

SameMean(a, b) ==
  SampleTotal(a) * SampleSize(b) = SampleTotal(b) * SampleSize(a)

SameVariance(a, b) ==
  SampleSpread(a) * SampleSize(b) * (SampleSize(b) - 1)
    = SampleSpread(b) * SampleSize(a) * (SampleSize(a) - 1)

LabelsSelected == ttest.kind \in {"result", "error"}

\* C1: a t-test result is shown only when both samples (the target's
\* non-missing values on the rows of the selected label) hold more than one
\* value; when either holds 0 or 1, no result is shown and the error "Not
\* enough data points in one of the groups." is.
C1_SampleSizeGate ==
  LabelsSelected =>
    /\ ttest.kind = "result" <=>
         (SampleSize(ttest.group1) > 1 /\ SampleSize(ttest.group2) > 1)
    /\ ttest.kind = "error" =>
         /\ ttest.error = NotEnoughMsg
         /\ ttest.verdict = ""
         /\ ttest.dof = 0
    /\ ttest.kind = "result" => ttest.error = ""

\* One group holds exactly 1 value, the other more than 1: the error is shown.
C1_Witness ==
  /\ pc = "done"
  /\ ttest.kind = "error"
  /\ SampleSize(ttest.group1) = 1
  /\ SampleSize(ttest.group2) > 1

\* C2: whenever a grouping column and a target column are selected, the
\* t-test section ends with a result or with a reported failure
\* (insufficient sample size, or insufficient groups when the grouping
\* column holds fewer than 2 distinct labels).
C2_InsufficientGroupsReported ==
  (pc = "done" /\ ttest.kind # "none") =>
    (ttest.kind = "result" \/ ttest.error # "")

\* C3: the correlation matrix is absent exactly when there are fewer than 2
\* numeric columns; otherwise it is computed with one of the three methods
\* and its rows and columns are the numeric columns and no others.
C3_CorrelationMatrix ==
  /\ ~AfterCorrelation => ~corr_matrix.present
  /\ AfterCorrelation =>
       /\ corr_matrix.present <=> Len(numeric_cols) >= 2
       /\ corr_matrix.present =>
            /\ corr_matrix.method \in {"pearson", "spearman", "kendall"}
            /\ corr_matrix.index = numeric_cols
            /\ corr_matrix.columns = numeric_cols

\* A kendall matrix over 3 numeric columns of a frame that also has others.
C3_Witness ==
  /\ pc = "done"
  /\ corr_matrix.present
  /\ corr_matrix.method = "kendall"
  /\ Len(corr_matrix.index) = 3
  /\ Len(df.columns) > 3

\* C4: the KPI cards are those of the first min(3, k) of the k numeric
\* columns, in order, each with the sum and the mean of the column's
\* non-missing values; no other column gets a card.
C4_TopThreeAggregates ==
  AfterKPIs =>
    /\ Len(kpi_cards) = Min(3, Len(numeric_cols))
    /\ \A i \in 1..Len(kpi_cards) :
         LET cells == Cells(numeric_cols[i])
             count == Cardinality({r \in Rows : cells[r] # NA})
         IN  /\ kpi_cards[i].name = numeric_cols[i]
             /\ kpi_cards[i].col_sum = Total(Rows, cells)
             /\ IF count = 0 THEN IsNaN(kpi_cards[i].col_mean)
                ELSE kpi_cards[i].col_mean.n * count
                       = Total(Rows, cells) * kpi_cards[i].col_mean.d

\* 5 numeric columns: exactly the first 3 have a card.
C4_Witness ==
  /\ pc = "done"
  /\ Len(numeric_cols) = 5
  /\ Len(kpi_cards) = 3
  /\ kpi_cards[3].name = numeric_cols[3]

\* C5: for every dataset the KPI section reports the row count, the column
\* count and the missing-value ratio; without numeric columns it also shows
\* the "no numeric columns" flag and no per-column aggregate.
C5_OverviewAlwaysReported ==
  AfterKPIs =>
    /\ overview.shown
    /\ overview.rows = df.nrows
    /\ overview.columns = Len(df.columns)
    /\ numeric_cols = <<>> => (kpi_warning /\ kpi_cards = <<>>)

TotalMissing ==
  Cardinality({rc \in Rows \X (1..Len(df.columns)) :
                 df.columns[rc[2]].cells[rc[1]] = NA})

\* C6: the reported missing value is total missing cells / (rows x columns)
\* (as a percentage), and for a dataset with 0 rows it is reported as 0.
C6_MissingRatio ==
  AfterKPIs =>
    /\ (df.nrows > 0 /\ overview.shown) =>
         /\ ~IsNaN(overview.missing)
         /\ overview.missing.n * df.nrows * Len(df.columns)
              = 100 * TotalMissing * overview.missing.d
    /\ df.nrows = 0 =>
         (overview.shown /\ overview.missing = Frac(0, 1))

Position(name) == CHOOSE j \in 1..Len(df.columns) : df.columns[j].name = name

\* A list of column names without repetition, in the frame's column order.
InColumnOrder(list) ==
  /\ \A i \in 1..Len(list) : \E j \in 1..Len(df.columns) : df.columns[j].name = list[i]
  /\ \A i, j \in 1..Len(list) : i < j => Position(list[i]) < Position(list[j])

\* The columns read as text (some cell is text, or a mix of kinds, or the
\* frame has no rows) and as numbers.
NamesTyped(dtypes) ==
  {df.columns[j].name : j \in {k \in 1..Len(df.columns) : df.columns[k].dtype \in dtypes}}

\* C7: the categorical and the numeric list hold no duplicates, share no
\* column, hold only columns of the frame in the frame's order, are exactly
\* the text-typed and the number-typed columns (so classifying again, as the
\* KPI section does, gives the same lists), and a bool column is in neither.
C7_Classification ==
  AfterClassify =>
    /\ InColumnOrder(categorical_cols)
    /\ InColumnOrder(numeric_cols)
    /\ Range(categorical_cols) \cap Range(numeric_cols) = {}
    /\ Range(categorical_cols) = NamesTyped({"object", "category"})
    /\ Range(numeric_cols) = NamesTyped({"int64", "float64"})
    /\ \A j \in 1..Len(df.columns) :
         (df.nrows > 0 /\ \A r \in Rows : df.columns[j].cells[r] = "True") =>
           /\ df.columns[j].name \notin Range(categorical_cols)
           /\ df.columns[j].name \notin Range(numeric_cols)

\* After the second classification: a bool column beside 2 numeric and 2
\* categorical columns.
C7_Witness ==
  /\ pc = "corr"
  /\ Len(numeric_cols) = 2
  /\ Len(categorical_cols) = 2
  /\ \E j \in 1..Len(df.columns) : df.columns[j].dtype = "bool"

AllMissing(col) == \A r \in Rows : col.cells[r] = NA

\* C8 as claimed: a column without a non-missing value is categorical and
\* never numeric.
C8_AllMissingIsCategorical ==
  AfterClassify =>
    \A j \in 1..Len(df.columns) :
      AllMissing(df.columns[j]) =>
        /\ df.columns[j].name \in Range(categorical_cols)
        /\ df.columns[j].name \notin Range(numeric_cols)

\* C8 as amended: a column whose every cell is missing is numeric (float64)
\* and not categorical in a frame with at least one row, and categorical
\* only in a frame without rows; in a frame with rows it counts toward the
\* correlation gate and is a row of the matrix, and has a KPI card when it
\* is among the first 3 numeric columns.
C8_AllMissingIsNumeric ==
  AfterClassify =>
    \A j \in 1..Len(df.columns) :
      AllMissing(df.columns[j]) =>
        LET name == df.columns[j].name
        IN  IF df.nrows = 0
            THEN /\ name \in Range(categorical_cols)
                 /\ name \notin Range(numeric_cols)
            ELSE /\ name \in Range(numeric_cols)
                 /\ name \notin Range(categorical_cols)
                 /\ (AfterCorrelation /\ Len(numeric_cols) >= 2) =>
                      (corr_matrix.present /\ name \in Range(corr_matrix.index))
                 /\ (AfterKPIs /\ \E i \in 1..Min(3, Len(numeric_cols)) :
                                     numeric_cols[i] = name) =>
                      \E i \in 1..Len(kpi_cards) :
                        /\ kpi_cards[i].name = name
                        /\ kpi_cards[i].col_sum = 0
                        /\ IsNaN(kpi_cards[i].col_mean)

\* An all-missing column of a frame with rows is the selected t-test target
\* and a row of the correlation matrix.
C8_Witness ==
  /\ pc = "done"
  /\ df.nrows > 0
  /\ ttest.kind # "none"
  /\ AllMissing(Column(df, ttest.numeric_col))
  /\ corr_matrix.present
  /\ ttest.numeric_col \in Range(corr_matrix.index)

\* C9: a result on two samples of the same mean and the same variance shows
\* the "not statistically significant" verdict, also when both groups are
\* the same label and when both variances are 0.
C9_SameMeanVarianceNotSignificant ==
  (ttest.kind = "result"
     /\ SameMean(ttest.group1, ttest.group2)
     /\ SameVariance(ttest.group1, ttest.group2)) =>
    ttest.verdict = "not statistically significant"

\* Two different labels, equal means, both variances 0.
C9_Witness ==
  /\ pc = "done"
  /\ ttest.kind = "result"
  /\ ttest.group1 # ttest.group2
  /\ SameMean(ttest.group1, ttest.group2)
  /\ SampleSpread(ttest.group1) = 0
  /\ SampleSpread(ttest.group2) = 0
  /\ ttest.verdict = "not statistically significant"

\* C10: the degrees of freedom shown with a result are the two sample sizes
\* (non-missing target values only) minus 2, hence at least 2.
C10_ReportedDof ==
  ttest.kind = "result" =>
    /\ ttest.dof = SampleSize(ttest.group1) + SampleSize(ttest.group2) - 2
    /\ ttest.dof >= 2

\* A row of the selected group has no target value and is not counted.
C10_Witness ==
  /\ pc = "done"
  /\ ttest.kind = "result"
  /\ \E r \in Rows : /\ Cells(ttest.group_col)[r] = ttest.group1
                     /\ Cells(ttest.numeric_col)[r] = NA
  /\ ttest.dof = 2
====
